---- MODULE Spec2Model ----
(***************************************************************************)
(* Model of the whois-checker domain monitor: the snapshot normalizer,     *)
(* the change detector, the notification dispatcher and the monitor loop   *)
(* of domain_monitor.py / notifications.py.                                *)
(*                                                                         *)
(* Python values are tagged records [type, val].  A str is the sequence    *)
(* of its character codes, so that lower() and the ordering used by        *)
(* sorted() are computed and not assumed.  A dict is a function from its   *)
(* keys (TLA+ strings) to values.                                          *)
(***************************************************************************)
EXTENDS Integers, Sequences, FiniteSets, TLC

VARIABLES
    pc,               \* position of main() in its loop
    file,             \* content of config['history_file']
    previous_status,  \* main: previous_status
    current_status,   \* main: current_status
    changes,          \* main: changes
    services,         \* NotificationManager.notification_services
    calls,            \* names of the channels whose send() was invoked this cycle
    results,          \* main: results (return value of send_notification)
    dispatched,       \* send_notification was called in this cycle
    readFailed,       \* load_history took its except branch in this cycle
    outcomes,         \* what each channel's send() did this cycle
    saveResult,       \* this cycle's save_history: "none", "ok" or "failed"
    value,            \* argument of normalize_whois_value
    normalized,       \* its return value
    lastCycle,        \* what the previous iteration of main() observed and did
    requested,        \* run_notification_test: its argument services
    testResult        \* run_notification_test: "none", then "pass" or "fail"

vars == <<pc, file, previous_status, current_status, changes, services,
          calls, results, dispatched, readFailed, outcomes, saveResult,
          value, normalized, lastCycle, requested, testResult>>

\* the state of the test harness, which main() never touches
harness == <<requested, testResult>>

(***************************************************************************)
(* Bounds of the model.                                                    *)
(***************************************************************************)
\* number of distinct clock readings datetime.now() can return
NumTimes == 2
\* longest list handed to normalize_whois_value
MaxLen == 2
\* number of distinct registrar names the registry can report
NumRegistrars == 2

(***************************************************************************)
(* Python values.                                                          *)
(***************************************************************************)
PyNone == [type |-> "NoneType", val |-> <<>>]
PyStr(s) == [type |-> "str", val |-> s]
PyBool(b) == [type |-> "bool", val |-> b]
PyList(l) == [type |-> "list", val |-> l]
\* a datetime, reduced to its seconds and microseconds
PyDatetime(sec, us) == [type |-> "datetime", val |-> <<sec, us>>]
\* the empty dict
EmptyDict == [k \in {} |-> PyNone]

\* str.lower() on one character code: 'A'..'Z' become 'a'..'z'
LowerChar(c) == IF c >= 65 /\ c <= 90 THEN c + 32 ELSE c
\* str.lower()
Lower(s) == [i \in 1..Len(s) |-> LowerChar(s[i])]

\* the order of Python str: lexicographic on the code points
RECURSIVE StrLess(_, _)
StrLess(a, b) ==
    IF a = <<>> THEN b # <<>>
    ELSE IF b = <<>> THEN FALSE
    ELSE IF Head(a) # Head(b) THEN Head(a) < Head(b)
    ELSE StrLess(Tail(a), Tail(b))

\* insertion of one str into a sorted list of str, after its equals (stable)
RECURSIVE InsertSorted(_, _)
InsertSorted(x, l) ==
    IF l = <<>> THEN <<x>>
    ELSE IF StrLess(x.val, Head(l).val) THEN <<x>> \o l
    ELSE <<Head(l)>> \o InsertSorted(x, Tail(l))

\* sorted(list of str)
RECURSIVE sorted(_)
sorted(l) ==
    IF l = <<>> THEN <<>>
    ELSE InsertSorted(l[Len(l)], sorted(SubSeq(l, 1, Len(l) - 1)))

\* two decimal digits, as character codes
TwoDigits(n) == <<48 + ((n \div 10) % 10), 48 + (n % 10)>>
\* value.strftime('%Y-%m-%d %H:%M:%S'): the seconds are kept, the
\* microseconds are not part of the format
strftime(dt) == TwoDigits(dt.val[1])
\* datetime.isoformat(): seconds, '.', microseconds
isoformat(dt) == TwoDigits(dt.val[1]) \o <<46>> \o TwoDigits(dt.val[2])

\* str(value) for the scalar types of a registry record
str(v) ==
    IF v.type = "str" THEN v.val
    ELSE IF v.type = "bool" THEN (IF v.val THEN <<84>> ELSE <<70>>)
    ELSE <<63>>

(***************************************************************************)
(* Snapshot Normalizer.                                                    *)
(***************************************************************************)
normalize_whois_value(v) ==
    IF v = PyNone THEN PyNone
    ELSE IF v.type = "list"
         THEN IF \A i \in 1..Len(v.val) : v.val[i].type = "str"
              THEN PyList(sorted([i \in 1..Len(v.val) |-> PyStr(Lower(v.val[i].val))]))
              ELSE v
    ELSE IF v.type = "datetime" THEN PyStr(strftime(v))
    ELSE PyStr(str(v))

\* the fields check_domain_status copies from the registry record
important_fields ==
    <<"domain_name", "registrar", "whois_server", "status", "name_servers",
      "creation_date", "expiration_date", "updated_date", "dnssec">>

\* "Le domaine semble être disponible"
AvailabilityText == PyStr(<<76, 101>>)
\* "Pas de texte brut disponible"
NoRawText == PyStr(<<80, 97>>)

Range(s) == {s[i] : i \in DOMAIN s}

\* check_domain_status.  lookup is what whois.whois(domain) does: it returns
\* the record lookup.w (a mapping from attribute names to values) or raises
\* an exception whose text is lookup.err.  now is the reading of
\* datetime.now() when check_time is set.
check_domain_status(lookup, now) ==
    IF ~lookup.ok
    THEN [k \in {"error", "check_time"} |->
             IF k = "error" THEN PyStr(lookup.err) ELSE PyStr(isoformat(now))]
    ELSE LET w == lookup.w
             copied == IF w["domain_name"] = PyNone
                       THEN {"availability"}
                       ELSE Range(important_fields) \cap DOMAIN w
         IN [k \in {"registered", "raw_text", "check_time"} \cup copied |->
                IF k = "registered" THEN PyBool(w["domain_name"] # PyNone)
                ELSE IF k = "availability" THEN AvailabilityText
                ELSE IF k = "raw_text"
                     THEN (IF "text" \in DOMAIN w THEN w["text"] ELSE NoRawText)
                ELSE IF k = "check_time" THEN PyStr(isoformat(now))
                ELSE normalize_whois_value(w[k])]

(***************************************************************************)
(* Change Detector.                                                        *)
(***************************************************************************)
\* "Premier contrôle, pas d'historique disponible"
FirstRunMessage == PyStr(<<80, 114>>)

skip_fields == {"check_time", "raw_text"}

\* Python truth value of previous_status: None and the empty dict are false
Truthy(d) == d # PyNone /\ d # EmptyDict

\* CurrentLoop comparing lists by identity (is not) and not by value: a
\* list loaded from the file is never the list just built
CurrentLoopListIdentity(previous, current) ==
    [k \in {f \in DOMAIN current \ skip_fields :
                \/ f \notin DOMAIN previous
                \/ previous[f] # current[f]
                \/ current[f].type = "list"} |->
        IF k \notin DOMAIN previous
        THEN [from |-> PyNone, to |-> current[k]]
        ELSE [from |-> previous[k], to |-> current[k]]]

\* the loop over the keys of current_status
CurrentLoop(previous, current) ==
    [k \in {f \in DOMAIN current \ skip_fields :
                f \notin DOMAIN previous \/ previous[f] # current[f]} |->
        IF k \notin DOMAIN previous
        THEN [from |-> PyNone, to |-> current[k]]
        ELSE [from |-> previous[k], to |-> current[k]]]

\* PreviousLoop without its test of skip_fields
PreviousLoopNoSkip(acc, previous, current) ==
    LET gone == {f \in DOMAIN previous : f \notin DOMAIN current}
    IN [k \in DOMAIN acc \cup gone |->
           IF k \in gone THEN [from |-> previous[k], to |-> PyNone] ELSE acc[k]]

\* the loop over the keys of previous_status, which adds to acc
PreviousLoop(acc, previous, current) ==
    LET gone == {f \in DOMAIN previous \ skip_fields : f \notin DOMAIN current}
    IN [k \in DOMAIN acc \cup gone |->
           IF k \in gone THEN [from |-> previous[k], to |-> PyNone] ELSE acc[k]]

\* detect_changes reporting a first run as "no change"
detect_changes_first_run_empty(previous, current) ==
    IF "error" \in DOMAIN current
    THEN [k \in {"error"} |-> current["error"]]
    ELSE IF ~Truthy(previous)
    THEN EmptyDict
    ELSE PreviousLoop(CurrentLoop(previous, current), previous, current)

detect_changes(previous, current) ==
    IF "error" \in DOMAIN current
    THEN [k \in {"error"} |-> current["error"]]
    ELSE IF ~Truthy(previous)
    THEN [k \in {"message"} |-> FirstRunMessage]
    ELSE PreviousLoop(CurrentLoop(previous, current), previous, current)

(***************************************************************************)
(* Notification formatter and dispatcher.                                  *)
(***************************************************************************)
\* prepare_notification_message: it reads change['from'] and change['to']
\* of every entry of changes, which raises TypeError when an entry is a str
\* and not a {from, to} mapping.  shown are the fields of the footer.
prepare_notification_message(chg, current) ==
    [raised |-> \E k \in DOMAIN chg : "from" \notin DOMAIN chg[k],
     shown  |-> {"registered", "domain_name", "registrar", "expiration_date",
                 "status"} \cap DOMAIN current]

\* the configuration keys of the channels, in the order __init__ tests them
ChannelKeys == <<"email", "pushover", "telegram", "discord", "ntfy">>

\* service.__class__.__name__ of the channel a key enables
ClassName(key) ==
    CASE key = "email"    -> "EmailNotifier"
      [] key = "pushover" -> "PushoverNotifier"
      [] key = "telegram" -> "TelegramNotifier"
      [] key = "discord"  -> "DiscordNotifier"
      [] key = "ntfy"     -> "NtfyNotifier"

\* NotificationManager.__init__: config maps some of the keys to the value
\* of their <key>_enabled option; a key that is missing counts as 'false'
RECURSIVE BuildServices(_, _)
BuildServices(config, i) ==
    IF i > Len(ChannelKeys) THEN <<>>
    ELSE (IF ChannelKeys[i] \in DOMAIN config /\ config[ChannelKeys[i]] = "true"
          THEN <<ClassName(ChannelKeys[i])>> ELSE <<>>)
         \o BuildServices(config, i + 1)

NotificationManager(config) == BuildServices(config, 1)

\* what a channel's send() can do
SendOutcomes == {"true", "false", "raise"}

\* send_notification without the try/except around send(): the first
\* exception ends the loop
RECURSIVE SendLoopAbortOnRaise(_, _, _, _)
SendLoopAbortOnRaise(svcs, out, i, acc) ==
    IF i > Len(svcs) THEN acc
    ELSE IF out[i] = "raise"
    THEN [calls |-> Append(acc.calls, svcs[i]), results |-> acc.results]
    ELSE SendLoopAbortOnRaise(svcs, out, i + 1,
                  [calls   |-> Append(acc.calls, svcs[i]),
                   results |-> Append(acc.results, <<svcs[i], out[i] = "true">>)])

\* NotificationManager.send_notification: the loop from service i on, with
\* the calls made and the results appended so far
RECURSIVE SendLoop(_, _, _, _)
SendLoop(svcs, out, i, acc) ==
    IF i > Len(svcs) THEN acc
    ELSE IF out[i] = "raise"
    THEN \* except Exception: the failure is recorded and the loop goes on
         SendLoop(svcs, out, i + 1,
                  [calls   |-> Append(acc.calls, svcs[i]),
                   results |-> Append(acc.results, <<svcs[i], FALSE>>)])
    ELSE SendLoop(svcs, out, i + 1,
                  [calls   |-> Append(acc.calls, svcs[i]),
                   results |-> Append(acc.results, <<svcs[i], out[i] = "true">>)])

send_notification(svcs, out) ==
    SendLoop(svcs, out, 1, [calls |-> <<>>, results |-> <<>>])

(***************************************************************************)
(* Snapshot store: the file config['history_file'].  Its content is the    *)
(* snapshot being written and the number n of its keys that have reached   *)
(* the file; json.load accepts it when every key has.                      *)
(***************************************************************************)
NoFile == [exists |-> FALSE, snap |-> EmptyDict, n |-> 0]

\* the order in which check_domain_status inserts the keys, which is the
\* order in which json.dump writes them
KeyOrder ==
    <<"error", "registered", "availability">> \o important_fields
        \o <<"raw_text", "check_time">>

Keys(d) == SelectSeq(KeyOrder, LAMBDA k : k \in DOMAIN d)

Complete(f) == f.exists /\ f.n = Cardinality(DOMAIN f.snap)

\* the values json.dump can encode; a datetime is not one of them
JsonSerializable(v) ==
    IF v.type = "list"
    THEN \A i \in 1..Len(v.val) : v.val[i].type \in {"str", "bool", "NoneType"}
    ELSE v.type \in {"str", "bool", "NoneType"}

\* load_history returning what it could read of a file it failed to parse
load_history_keeps_partial(f, io_error) ==
    IF ~f.exists THEN [status |-> PyNone, failed |-> FALSE]
    ELSE IF io_error \/ ~Complete(f) THEN [status |-> f.snap, failed |-> TRUE]
    ELSE [status |-> f.snap, failed |-> FALSE]

\* load_history: the file is read when it exists; a failure to open it
\* (io_error) or to parse it is caught and None is returned
load_history(f, io_error) ==
    IF ~f.exists THEN [status |-> PyNone, failed |-> FALSE]
    ELSE IF io_error \/ ~Complete(f) THEN [status |-> PyNone, failed |-> TRUE]
    ELSE [status |-> f.snap, failed |-> FALSE]

(***************************************************************************)
(* Inputs of the monitor loop.                                             *)
(***************************************************************************)
Times == {PyDatetime(t, 0) : t \in 1..NumTimes}

Registrars == {PyStr(<<64 + i>>) : i \in 1..NumRegistrars}

\* the text of the registry answer
RawText == PyStr(<<114>>)

\* registry records: an unregistered domain, and registered ones whose name
\* servers come in either order and casing and whose creation date is
\* missing or is a list of datetimes
NameServerLists ==
    {PyList(<<PyStr(<<66>>), PyStr(<<97>>)>>),
     PyList(<<PyStr(<<65>>), PyStr(<<98>>)>>)}

CreationDates == {PyList(<<PyDatetime(2, 0), PyDatetime(1, 0)>>)}

RawRecords ==
    {[domain_name |-> PyNone, text |-> RawText]}
    \cup {[domain_name |-> PyStr(<<69, 88>>), registrar |-> r,
           name_servers |-> ns, text |-> RawText] :
              r \in Registrars, ns \in NameServerLists}
    \cup {[domain_name |-> PyStr(<<69, 88>>), registrar |-> r,
           name_servers |-> ns, creation_date |-> cd, text |-> RawText] :
              r \in Registrars, ns \in NameServerLists, cd \in CreationDates}

Lookups ==
    {[ok |-> TRUE, w |-> w, err |-> <<>>] : w \in RawRecords}
    \cup {[ok |-> FALSE, w |-> EmptyDict, err |-> <<101>>]}

\* the channel configurations: every key is 'true' or 'false'
Configs == [Range(ChannelKeys) -> {"true", "false"}]

(***************************************************************************)
(* The monitor loop, main().                                               *)
(***************************************************************************)
Running == pc \notin {"crashed", "interrupted"}

\* the locals of one iteration before it has assigned them
FreshCycle ==
    /\ previous_status = PyNone
    /\ current_status = EmptyDict
    /\ changes = EmptyDict
    /\ calls = <<>>
    /\ results = <<>>
    /\ outcomes = <<>>
    /\ dispatched = FALSE
    /\ readFailed = FALSE
    /\ saveResult = "none"

\* no iteration of main() has ended yet
NoCycle == [ran |-> FALSE, data |-> EmptyDict, dispatched |-> FALSE,
            delivered |-> FALSE, saved |-> FALSE]

\* the test harness is not running
NoHarness == requested = <<>> /\ testResult = "none"

Init ==
    /\ pc = "load"
    /\ file = NoFile
    /\ \E config \in Configs : services = NotificationManager(config)
    /\ FreshCycle
    /\ value = PyNone
    /\ normalized = PyNone
    /\ lastCycle = NoCycle
    /\ NoHarness

\* previous_status = load_history(config)
LoadHistory ==
    /\ pc = "load"
    /\ \E io_error \in BOOLEAN :
          LET r == load_history(file, io_error)
          IN /\ previous_status' = r.status
             /\ readFailed' = r.failed
    /\ pc' = "check"
    /\ UNCHANGED <<file, current_status, changes, services, calls, results,
                   dispatched, outcomes, saveResult, value, normalized>>
    /\ UNCHANGED <<lastCycle, harness>>

\* current_status = check_domain_status(config['domain'])
CheckDomainStatus ==
    /\ pc = "check"
    /\ \E lookup \in Lookups, now \in Times :
          current_status' = check_domain_status(lookup, now)
    /\ pc' = "detect"
    /\ UNCHANGED <<file, previous_status, changes, services, calls, results,
                   dispatched, readFailed, outcomes, saveResult, value,
                   normalized>>
    /\ UNCHANGED <<lastCycle, harness>>

\* changes = detect_changes(previous_status, current_status)
DetectChanges ==
    /\ pc = "detect"
    /\ changes' = detect_changes(previous_status, current_status)
    /\ pc' = "notify"
    /\ UNCHANGED <<file, previous_status, current_status, services, calls,
                   results, dispatched, readFailed, outcomes, saveResult,
                   value, normalized>>
    /\ UNCHANGED <<lastCycle, harness>>

\* the condition of the if statement without its test for an empty dict
ShouldNotifyNoEmptyTest(chg) ==
    ~(Cardinality(DOMAIN chg) = 1 /\ "message" \in DOMAIN chg)

\* the condition of the if statement of main()
ShouldNotify(chg) ==
    /\ chg # EmptyDict
    /\ Cardinality(DOMAIN chg) > 0
    /\ ~(Cardinality(DOMAIN chg) = 1 /\ "message" \in DOMAIN chg)

\* the if statement of main(): the message is prepared and sent to every
\* channel; an exception of prepare_notification_message is caught by
\* main's except clause, which logs it and raises it again
Notify ==
    /\ pc = "notify"
    /\ IF ShouldNotify(changes)
       THEN IF prepare_notification_message(changes, current_status).raised
            THEN /\ pc' = "crashed"
                 /\ UNCHANGED <<calls, results, dispatched, outcomes>>
            ELSE \E out \in [1..Len(services) -> SendOutcomes] :
                    LET r == send_notification(services, out)
                    IN /\ calls' = r.calls
                       /\ results' = r.results
                       /\ outcomes' = out
                       /\ dispatched' = TRUE
                       /\ pc' = "save"
       ELSE /\ pc' = "save"
            /\ UNCHANGED <<calls, results, dispatched, outcomes>>
    /\ UNCHANGED <<file, previous_status, current_status, changes, services,
                   readFailed, saveResult, value, normalized>>
    /\ UNCHANGED <<lastCycle, harness>>

\* main() saving the snapshot only when the notification went out, so as to
\* send it again in the next cycle
SaveOpenIfDelivered ==
    /\ pc = "save"
    /\ IF dispatched /\ ~\E i \in 1..Len(results) : results[i][2]
       THEN /\ pc' = "sleep"
            /\ UNCHANGED <<file, saveResult>>
       ELSE \E io_error \in BOOLEAN :
               IF io_error
               THEN /\ saveResult' = "failed"
                    /\ pc' = "sleep"
                    /\ UNCHANGED file
               ELSE /\ file' = [exists |-> TRUE, snap |-> current_status, n |-> 0]
                    /\ pc' = "dump"
                    /\ UNCHANGED saveResult
    /\ UNCHANGED <<previous_status, current_status, changes, services, calls,
                   results, dispatched, readFailed, outcomes, value, normalized>>
    /\ UNCHANGED <<lastCycle, harness>>

\* save_history, up to open(): a failure of makedirs or open is caught and
\* False is returned; open(..., 'w') empties the file
SaveOpen ==
    /\ pc = "save"
    /\ \E io_error \in BOOLEAN :
          IF io_error
          THEN /\ saveResult' = "failed"
               /\ pc' = "sleep"
               /\ UNCHANGED file
          ELSE /\ file' = [exists |-> TRUE, snap |-> current_status, n |-> 0]
               /\ pc' = "dump"
               /\ UNCHANGED saveResult
    /\ UNCHANGED <<previous_status, current_status, changes, services, calls,
                   results, dispatched, readFailed, outcomes, value, normalized>>
    /\ UNCHANGED <<lastCycle, harness>>

\* save_history, json.dump: the keys are written one after the other; a
\* value json cannot encode raises TypeError and a failed write raises
\* OSError, both caught with the file left as it is; True is returned after
\* the last key
SaveWrite ==
    /\ pc = "dump"
    /\ IF Complete(file)
       THEN /\ saveResult' = "ok"
            /\ pc' = "sleep"
            /\ UNCHANGED file
       ELSE \E io_error \in BOOLEAN :
               IF io_error \/ ~JsonSerializable(file.snap[Keys(file.snap)[file.n + 1]])
               THEN /\ saveResult' = "failed"
                    /\ pc' = "sleep"
                    /\ UNCHANGED file
               ELSE /\ file' = [file EXCEPT !.n = @ + 1]
                    /\ UNCHANGED <<saveResult, pc>>
    /\ UNCHANGED <<previous_status, current_status, changes, services, calls,
                   results, dispatched, readFailed, outcomes, value, normalized>>
    /\ UNCHANGED <<lastCycle, harness>>

\* time.sleep(config['check_interval']), then the next iteration, which
\* assigns every local again before it reads it
NextIteration ==
    /\ pc = "sleep"
    /\ pc' = "load"
    /\ previous_status' = PyNone
    /\ current_status' = EmptyDict
    /\ changes' = EmptyDict
    /\ calls' = <<>>
    /\ results' = <<>>
    /\ outcomes' = <<>>
    /\ dispatched' = FALSE
    /\ readFailed' = FALSE
    /\ saveResult' = "none"
    /\ UNCHANGED <<file, services, value, normalized>>
    /\ UNCHANGED harness

Sleep == NextIteration /\ UNCHANGED lastCycle

\* KeyboardInterrupt: raised at any point of the loop, caught by no handler
\* but main's, which logs it and returns; an open file is closed as it is
Interrupt ==
    /\ Running
    /\ pc' = "interrupted"
    /\ UNCHANGED <<file, previous_status, current_status, changes, services,
                   calls, results, dispatched, readFailed, outcomes,
                   saveResult, value, normalized>>
    /\ UNCHANGED <<lastCycle, harness>>

Next ==
    \/ LoadHistory
    \/ CheckDomainStatus
    \/ DetectChanges
    \/ Notify
    \/ SaveOpen
    \/ SaveWrite
    \/ Sleep
    \/ Interrupt

Spec == Init /\ [][Next]_vars

(***************************************************************************)
(* The change detector on its own: detect_changes applied to every pair    *)
(* of a previous snapshot (or None) and a current snapshot over a small    *)
(* set of fields.  A snapshot always carries check_time.                   *)
(***************************************************************************)
Absent == [type |-> "absent", val |-> <<>>]

MakeSnapshot(c) ==
    [k \in {f \in DOMAIN c : c[f] # Absent} |-> c[k]]

Snapshots ==
    {MakeSnapshot([registered |-> rg, registrar |-> rr, name_servers |-> ns,
                   raw_text |-> rt, error |-> er, check_time |-> ct]) :
        rg \in {PyBool(TRUE), PyBool(FALSE), Absent},
        rr \in Registrars \cup {PyNone, Absent},
        ns \in {PyList(<<PyStr(<<97>>)>>),
                PyList(<<PyStr(<<97>>), PyStr(<<98>>)>>), Absent},
        rt \in {RawText, NoRawText, Absent},
        er \in {PyStr(<<101>>), Absent},
        ct \in {PyStr(isoformat(t)) : t \in Times}}

InitDetect ==
    /\ pc = "detect"
    /\ file = NoFile
    /\ services = <<>>
    /\ previous_status \in {PyNone} \cup Snapshots
    /\ current_status \in Snapshots
    /\ changes = EmptyDict
    /\ calls = <<>>
    /\ results = <<>>
    /\ outcomes = <<>>
    /\ dispatched = FALSE
    /\ readFailed = FALSE
    /\ saveResult = "none"
    /\ value = PyNone
    /\ normalized = PyNone
    /\ lastCycle = NoCycle
    /\ NoHarness

NextDetect == DetectChanges

SpecDetect == InitDetect /\ [][NextDetect]_vars

(***************************************************************************)
(* The value normalizer on its own: normalize_whois_value applied to the   *)
(* scalars and the lists of at most MaxLen elements a record can hold.     *)
(***************************************************************************)
RawElements ==
    {PyStr(<<65>>), PyStr(<<97>>), PyStr(<<66>>), PyStr(<<98>>),
     PyStr(<<97, 66>>), PyNone, PyDatetime(1, 0), PyDatetime(2, 1)}

RawValues ==
    RawElements \cup {PyBool(TRUE)}
    \cup {PyList(l) : l \in UNION {[1..n -> RawElements] : n \in 0..MaxLen}}

InitNorm ==
    /\ pc = "normalize"
    /\ value \in RawValues
    /\ normalized = PyNone
    /\ file = NoFile
    /\ services = <<>>
    /\ FreshCycle
    /\ lastCycle = NoCycle
    /\ NoHarness

Normalize ==
    /\ pc = "normalize"
    /\ normalized' = normalize_whois_value(value)
    /\ pc' = "normalized"
    /\ UNCHANGED <<file, previous_status, current_status, changes, services,
                   calls, results, dispatched, readFailed, outcomes,
                   saveResult, value>>
    /\ UNCHANGED <<lastCycle, harness>>

NextNorm == Normalize

SpecNorm == InitNorm /\ [][NextNorm]_vars

(***************************************************************************)
(* Properties.                                                             *)
(***************************************************************************)
\* the single-entry first-run ChangeSet
FirstRunSentinel == [k \in {"message"} |-> FirstRunMessage]

\* main() is past the if statement of the current cycle
PastNotify == pc \in {"save", "dump", "sleep", "crashed"}

C2_NoFailureStopsLoop == pc # "crashed"

\* C3: send_notification invokes the send of every configured channel once,
\* in configuration order, and returns one (name, success) pair per channel
\* in that order, success being true exactly for the channels whose send
\* returned true, whatever the earlier channels did.
C3_EveryChannelAttempted ==
    dispatched =>
        /\ calls = services
        /\ Len(results) = Len(services)
        /\ \A i \in 1..Len(services) :
              results[i] = <<services[i], outcomes[i] = "true">>

C3_Witness ==
    /\ dispatched
    /\ Len(services) >= 3
    /\ outcomes[1] = "raise"
    /\ outcomes[2] = "false"
    /\ outcomes[3] = "true"
    /\ results[3][2] = TRUE

\* detect_changes has returned for a present previous snapshot and a current
\* snapshot without an error field
DetectedDiff ==
    /\ pc = "notify"
    /\ Truthy(previous_status)
    /\ "error" \notin DOMAIN current_status

\* C4: for a present previous snapshot P and a current snapshot C without
\* error, detect_changes(P, C) has an entry for f exactly when f is not
\* check_time or raw_text and f is in only one of P and C or has unequal
\* values in them; the entry is {from: null, to: C[f]}, {from: P[f], to:
\* null} or {from: P[f], to: C[f]} accordingly.
C4_DiffEntries ==
    DetectedDiff =>
        LET P == previous_status
            C == current_status
        IN /\ DOMAIN changes \subseteq DOMAIN P \cup DOMAIN C
           /\ \A f \in DOMAIN P \cup DOMAIN C :
                 /\ f \in DOMAIN changes <=>
                       /\ f \notin {"check_time", "raw_text"}
                       /\ \/ f \notin DOMAIN P
                          \/ f \notin DOMAIN C
                          \/ P[f] # C[f]
                 /\ f \in DOMAIN changes =>
                       changes[f] =
                           IF f \notin DOMAIN P
                           THEN [from |-> PyNone, to |-> C[f]]
                           ELSE IF f \notin DOMAIN C
                           THEN [from |-> P[f], to |-> PyNone]
                           ELSE [from |-> P[f], to |-> C[f]]

C4_Witness ==
    /\ DetectedDiff
    /\ "raw_text" \in DOMAIN previous_status \ DOMAIN current_status
    /\ previous_status["check_time"] # current_status["check_time"]
    /\ \E f, g, h \in DOMAIN changes :
          /\ changes[f].from = PyNone /\ f \notin DOMAIN previous_status
          /\ changes[g].to = PyNone /\ g \notin DOMAIN current_status
          /\ h \in DOMAIN previous_status \cap DOMAIN current_status

\* C5 as stated: with no previous snapshot, detect_changes returns the
\* first-run sentinel for every current snapshot whatever its content.
C5_FirstRunWhateverCurrent ==
    pc = "notify" /\ previous_status = PyNone => changes = FirstRunSentinel

\* C5: with no previous snapshot, detect_changes returns exactly the
\* single-entry first-run sentinel for every current snapshot that has no
\* error field.
C5_FirstRunSentinel ==
    pc = "notify" /\ previous_status = PyNone
                  /\ "error" \notin DOMAIN current_status
        => changes = FirstRunSentinel

C5_Witness ==
    /\ pc = "notify"
    /\ previous_status = PyNone
    /\ "registrar" \in DOMAIN current_status
    /\ changes = FirstRunSentinel

\* C6 as stated: detect_changes(S, S) is empty for every snapshot S.
C6_SelfDiffEmptyAnySnapshot ==
    pc = "notify" /\ previous_status = current_status => changes = EmptyDict

\* C6: detect_changes(S, S) is the empty ChangeSet for every snapshot S that
\* has no error field.
C6_SelfDiffEmpty ==
    pc = "notify" /\ previous_status = current_status
                  /\ "error" \notin DOMAIN current_status
        => changes = EmptyDict

C6_Witness ==
    /\ pc = "notify"
    /\ previous_status = current_status
    /\ "name_servers" \in DOMAIN current_status
    /\ "registrar" \in DOMAIN current_status
    /\ changes = EmptyDict

\* x and y are the same element up to the casing of a str
SameUpToCase(x, y) ==
    IF x.type = "str" /\ y.type = "str" THEN Lower(x.val) = Lower(y.val)
    ELSE x = y

\* the lists a and b differ at most in the order and casing of their elements
SameUpToOrderAndCase(a, b) ==
    /\ a.type = "list" /\ b.type = "list" /\ Len(a.val) = Len(b.val)
    /\ \E p \in [1..Len(a.val) -> 1..Len(a.val)] :
          /\ \A i, j \in 1..Len(a.val) : p[i] = p[j] => i = j
          /\ \A i \in 1..Len(a.val) : SameUpToCase(a.val[i], b.val[p[i]])

\* C7: every list-valued field the normalizer produces is sorted ascending
\* and lower-cased whatever the raw list contains, so two raw lists that
\* differ only in order or casing normalize to the same value.
C7_ListsSortedLowercased ==
    pc = "normalized" /\ value.type = "list" =>
        /\ normalized.type = "list"
        /\ \A i \in 1..Len(normalized.val) :
              /\ normalized.val[i].type = "str"
              /\ normalized.val[i].val = Lower(normalized.val[i].val)
        /\ \A i \in 1..(Len(normalized.val) - 1) :
              ~StrLess(normalized.val[i + 1].val, normalized.val[i].val)
        /\ \A other \in RawValues :
              SameUpToOrderAndCase(value, other) =>
                  normalize_whois_value(other) = normalized

\* C8: an interruption of the monitor never leaves a partially written
\* snapshot in the store: the file is missing or holds a complete snapshot.
C8_InterruptKeepsStoreWhole ==
    pc = "interrupted" => ~file.exists \/ Complete(file)

\* C9: every cycle persists its own current snapshot after the comparison,
\* the cycle of a failed lookup included: unless the write itself failed,
\* the cycle ends with the store holding current_status.
C9_EveryCyclePersists ==
    pc \in {"sleep", "crashed"} /\ saveResult # "failed" =>
        Complete(file) /\ file.snap = current_status

\* C10: in a cycle whose load_history failed and whose lookup succeeded,
\* detect_changes yields the first-run sentinel, nothing is dispatched, and
\* main() goes on to save the current snapshot.
C10_ReadFailureIsFirstRun ==
    readFailed /\ current_status # EmptyDict
               /\ "error" \notin DOMAIN current_status =>
        /\ pc # "crashed"
        /\ ~dispatched
        /\ pc \in {"notify", "save", "dump", "sleep"} =>
              changes = FirstRunSentinel
        /\ pc = "dump" => file.snap = current_status
        /\ pc = "sleep" => saveResult # "none"
        /\ pc = "sleep" /\ saveResult = "ok" =>
              Complete(file) /\ file.snap = current_status

C10_Witness ==
    /\ readFailed
    /\ pc = "sleep"
    /\ saveResult = "ok"
    /\ changes = FirstRunSentinel
    /\ ~dispatched
    /\ file.snap = current_status

(***************************************************************************)
(* The test harness, run_notification_test of test_notifications.py.       *)
(***************************************************************************)
\* most --service options on the command line of the harness
MaxRequested == 2

\* args.service: the keys given with --service, in order; the empty
\* sequence stands for None (no option given), which `if services:` treats
\* alike
Requests == UNION {[1..n -> Range(ChannelKeys)] : n \in 0..MaxRequested}

\* the loop config[f"{service}_enabled"] = "true" over the requested keys
EnableRequested(config, req) ==
    [k \in DOMAIN config |-> IF k \in Range(req) THEN "true" ELSE config[k]]

InitTest ==
    /\ pc = "test"
    /\ requested \in Requests
    /\ testResult = "none"
    /\ file = NoFile
    /\ services = <<>>
    /\ FreshCycle
    /\ value = PyNone
    /\ normalized = PyNone
    /\ lastCycle = NoCycle

\* run_notification_test(services): get_config() reads the configuration,
\* the requested keys are switched on, the manager is built from the result
\* and the test message is sent to every service it holds; the test passes
\* when at least one send succeeded, and the process exits with 0 or 1
RunNotificationTest ==
    /\ pc = "test"
    /\ \/ \* get_config() raises for want of a domain: caught, False returned
          /\ testResult' = "fail"
          /\ UNCHANGED <<services, calls, results, outcomes, dispatched>>
       \/ \E config \in Configs :
          LET svcs == NotificationManager(EnableRequested(config, requested))
          IN /\ services' = svcs
             /\ IF svcs = <<>>
                THEN /\ testResult' = "fail"
                     /\ UNCHANGED <<calls, results, outcomes, dispatched>>
                ELSE \E out \in [1..Len(svcs) -> SendOutcomes] :
                        LET r == send_notification(svcs, out)
                        IN /\ calls' = r.calls
                           /\ results' = r.results
                           /\ outcomes' = out
                           /\ dispatched' = TRUE
                           /\ testResult' =
                                 IF \E i \in 1..Len(r.results) : r.results[i][2]
                                 THEN "pass" ELSE "fail"
    /\ pc' = "tested"
    /\ UNCHANGED <<file, previous_status, current_status, changes, readFailed,
                   saveResult, value, normalized, lastCycle, requested>>

NextTest == RunNotificationTest

SpecTest == InitTest /\ [][NextTest]_vars

\* the class names of the channels named on the command line
RequestedClasses == {ClassName(requested[i]) : i \in DOMAIN requested}

\* C11: when the harness is given an explicit subset of channel names, only
\* the named channels are constructed and sent to, whatever the configuration
\* enables.
C11_OnlyRequestedChannels ==
    pc = "tested" /\ requested # <<>> =>
        /\ Range(services) \subseteq RequestedClasses
        /\ Range(calls) \subseteq RequestedClasses

(***************************************************************************)
(* The monitor loop with a record of its previous iteration, for the       *)
(* properties that relate two consecutive cycles.                          *)
(***************************************************************************)
\* most channels switched on in the configuration
MaxEnabled == 1

\* what a snapshot says about the registry: all but the fields of the check
RegistryData(status) == [k \in DOMAIN status \ skip_fields |-> status[k]]

InitRetry ==
    /\ pc = "load"
    /\ file = NoFile
    /\ \E config \in Configs :
          /\ Cardinality({k \in DOMAIN config : config[k] = "true"}) <= MaxEnabled
          /\ services = NotificationManager(config)
    /\ FreshCycle
    /\ value = PyNone
    /\ normalized = PyNone
    /\ lastCycle = NoCycle
    /\ NoHarness

\* Sleep, with the ending iteration recorded: the registry data it saw,
\* whether it dispatched, whether a send succeeded, whether save_history
\* returned True
SleepRecord ==
    /\ NextIteration
    /\ lastCycle' = [ran        |-> TRUE,
                     data       |-> RegistryData(current_status),
                     dispatched |-> dispatched,
                     delivered  |-> \E i \in 1..Len(results) : results[i][2],
                     saved      |-> saveResult = "ok"]

NextRetry ==
    \/ LoadHistory
    \/ CheckDomainStatus
    \/ DetectChanges
    \/ Notify
    \/ SaveOpen
    \/ SaveWrite
    \/ SleepRecord
    \/ Interrupt

SpecRetry == InitRetry /\ [][NextRetry]_vars

\* this cycle has compared a snapshot of the registry data that the previous
\* cycle detected as a change and dispatched
SameDataAsDispatched ==
    /\ lastCycle.ran
    /\ lastCycle.dispatched
    /\ pc \in {"save", "dump", "sleep"}
    /\ RegistryData(current_status) = lastCycle.data

\* a cycle that dispatched has reached its end with save_history called on
\* its snapshot, and the store holding it when the write succeeded
SavedWhateverOutcome ==
    dispatched =>
        /\ pc = "dump" => file.snap = current_status
        /\ pc = "sleep" => saveResult # "none"
        /\ pc = "sleep" /\ saveResult = "ok" =>
              Complete(file) /\ file.snap = current_status

====
